---- MODULE Spec2Model ----
(***************************************************************************)
(* Model of the social-graph endpoints and of the socket.io presence and   *)
(* messaging handlers of server.ts.                                        *)
(*                                                                         *)
(* Every Express route handler and every socket.io event handler runs to   *)
(* completion on the single Node.js thread and uses the synchronous        *)
(* better-sqlite3 API (no await inside a handler), so one handler is one   *)
(* atomic action.  better-sqlite3 enforces FOREIGN KEY clauses.            *)
(***************************************************************************)
EXTENDS Integers, Sequences, FiniteSets, Bags, TLC

(* ---------------------------------------------------------------- bounds *)

\* Rows the notifications table may hold before the model stops inserting.
MaxNotifs == 3

\* Connections the server accepts in one run (socket ids 1..MaxSockets).
MaxSockets == 2

\* Rows the messages table may hold before the model stops inserting.
MaxMessages == 1

\* Rows the messages table may hold in the specification of message order.
MaxSends == 2

\* Rows the posts table may hold before the model stops inserting.
MaxPosts == 1

\* Rows the comments table may hold before the model stops inserting.
MaxComments == 1

\* Registered accounts (rows of the users table) and the identifiers a request
\* may carry: the registered ones and one that names no account.
Accounts == {1, 2}
NoAccount == Cardinality(Accounts) + 1
Ids == Accounts \cup {NoAccount}

\* Message texts a client may send: the empty text and a non-empty one.
Contents == {"", "hi"}

VARIABLES
  users,          \* users table: id -> [is_private]
  follows,        \* follows table: a bag of rows [follower_id, following_id, status]
  notifications,  \* notifications table in rowid order
  res,            \* body of the last HTTP response
  awaiting        \* history: pairs whose RequestFollow returned pending and for
                  \* which RespondToRequest(accept) has not been called since

VARIABLES
  sockets,        \* number of connections accepted so far
  connected,      \* ids of the connections that are open
  onlineUsers,    \* the Map, as its entries [userId, socketId] in key insertion order
  messages,       \* messages table in rowid order
  emits,          \* the events the last socket handler emitted, in order
  superseded,     \* history: <<userId, socketId>> of open connections whose
                  \* registration for userId was overwritten by another connection
  created_at,     \* created_at column of the messages table, in rowid order
  now             \* the clock CURRENT_TIMESTAMP reads, in seconds

VARIABLES
  posts,          \* posts table: posts[id] is the user_id of the row with that id,
                  \* null once the row is deleted (AUTOINCREMENT reuses no id)
  likes,          \* likes table: a bag of rows [post_id, user_id]
  comments        \* comments table in rowid order

graphVars == <<users, follows, notifications, res, awaiting>>

contentVars == <<posts, likes, comments>>

chatVars == <<sockets, connected, onlineUsers, messages, emits, superseded,
              created_at, now>>

vars == <<users, follows, notifications, res, awaiting,
          sockets, connected, onlineUsers, messages, emits, superseded,
          created_at, now, posts, likes, comments>>

(* ------------------------------------------------------- follows table *)

FollowRow(follower_id, following_id, status) ==
  [follower_id |-> follower_id, following_id |-> following_id, status |-> status]

\* The rows of table t for the ordered pair (a, b).
EdgeRows(t, a, b) ==
  {r \in BagToSet(t) : r.follower_id = a /\ r.following_id = b}

RECURSIVE SumCopies(_, _)
SumCopies(t, rows) ==
  IF rows = {} THEN 0
  ELSE LET r == CHOOSE x \in rows : TRUE
       IN  CopiesIn(r, t) + SumCopies(t, rows \ {r})

\* Number of rows of table t for the ordered pair (a, b).
EdgeCount(t, a, b) == SumCopies(t, EdgeRows(t, a, b))

\* Mutant: the table has no PRIMARY KEY(follower_id, following_id).
FollowsInsertFailsNoKey(t, follower_id, following_id) ==
  \/ follower_id \notin DOMAIN users
  \/ following_id \notin DOMAIN users

\* INSERT INTO follows fails on the PRIMARY KEY(follower_id, following_id)
\* and on either FOREIGN KEY ... REFERENCES users(id).
FollowsInsertFails(t, follower_id, following_id) ==
  \/ EdgeRows(t, follower_id, following_id) # {}
  \/ follower_id \notin DOMAIN users
  \/ following_id \notin DOMAIN users

\* Mutant: the DELETE carries AND status = 'accepted'.
FollowsDeleteAcceptedOnly(t, follower_id, following_id) ==
  LET keep == {r \in BagToSet(t) :
                 ~(r.follower_id = follower_id /\ r.following_id = following_id
                   /\ r.status = "accepted")}
  IN  [r \in keep |-> t[r]]

\* Mutant: the DELETE carries AND status = 'pending'.
FollowsDeletePendingOnly(t, follower_id, following_id) ==
  LET keep == {r \in BagToSet(t) :
                 ~(r.follower_id = follower_id /\ r.following_id = following_id
                   /\ r.status = "pending")}
  IN  [r \in keep |-> t[r]]

\* DELETE FROM follows WHERE follower_id = ? AND following_id = ?
FollowsDelete(t, follower_id, following_id) ==
  LET keep == BagToSet(t) \ EdgeRows(t, follower_id, following_id)
  IN  [r \in keep |-> t[r]]

\* Mutant: the UPDATE binds following_id and follower_id in the wrong order.
FollowsAcceptSwapped(t, follower_id, following_id) ==
  LET hit == {r \in BagToSet(t) :
                r.follower_id = following_id /\ r.following_id = follower_id}
      keep == BagToSet(t) \ hit
  IN  IF hit = {} THEN t
      ELSE [r \in keep |-> t[r]] (+)
           SetToBag({[follower_id |-> following_id, following_id |-> follower_id,
                      status |-> "accepted"]})

\* UPDATE follows SET status = 'accepted' WHERE follower_id = ? AND following_id = ?
FollowsAccept(t, follower_id, following_id) ==
  LET hit == EdgeRows(t, follower_id, following_id)
      n   == SumCopies(t, hit)
      rest == FollowsDelete(t, follower_id, following_id)
  IN  IF hit = {} THEN t
      ELSE rest (+) [r \in {FollowRow(follower_id, following_id, "accepted")} |-> n]

\* status = 'accepted' is what the profile counts and the feed read.
IsFollowing(a, b) ==
  \E r \in EdgeRows(follows, a, b) : r.status = "accepted"

IsPending(a, b) ==
  \E r \in EdgeRows(follows, a, b) : r.status = "pending"

(* ------------------------------------------------- notifications table *)

\* The post_id of a notification that names no post (NULL).
null == 0

\* INSERT INTO notifications (user_id, actor_id, type, post_id): is_read DEFAULT 0
NotificationOn(user_id, actor_id, type, post_id) ==
  [user_id |-> user_id, actor_id |-> actor_id, type |-> type,
   post_id |-> post_id, is_read |-> FALSE]

\* INSERT INTO notifications (user_id, actor_id, type): post_id is NULL
Notification(user_id, actor_id, type) ==
  NotificationOn(user_id, actor_id, type, null)

\* INSERT INTO notifications fails on either FOREIGN KEY ... REFERENCES users(id).
NotificationsInsertFails(user_id, actor_id) ==
  user_id \notin DOMAIN users \/ actor_id \notin DOMAIN users

(* ----------------------------------------------------------------- Init *)

Init ==
  /\ users = [id \in Accounts |-> [is_private |-> FALSE]]
  /\ follows = EmptyBag
  /\ notifications = <<>>
  /\ res = "none"
  /\ awaiting = {}
  /\ sockets = 0
  /\ connected = {}
  /\ onlineUsers = <<>>
  /\ messages = <<>>
  /\ emits = <<>>
  /\ superseded = {}
  /\ created_at = <<>>
  /\ now = 0
  /\ posts = <<>>
  /\ likes = EmptyBag
  /\ comments = <<>>

(* ------------------------------------------------------------- handlers *)

\* Mutant: the privacy flag is not read.
FollowStatusIgnoresPrivacy(targetUser) == "accepted"

\* const status = targetUser.is_private ? 'pending' : 'accepted'
FollowStatus(targetUser) ==
  IF targetUser.is_private THEN "pending" ELSE "accepted"

\* Mutant: the notification type does not depend on the status.
FollowNotificationTypeAlwaysFollow(status) == "follow"

\* type of the notification written after the follows row was inserted
FollowNotificationType(status) ==
  IF status = "pending" THEN "follow_request" ELSE "follow"

\* app.post("/api/follow")
RequestFollow(follower_id, following_id) ==
  /\ IF following_id \notin DOMAIN users
     THEN \* targetUser is undefined: reading .is_private throws outside the try
          /\ res' = "error500"
          /\ UNCHANGED <<users, follows, notifications, awaiting>>
     ELSE LET status == FollowStatus(users[following_id])
          IN  IF FollowsInsertFails(follows, follower_id, following_id)
              THEN \* catch (e): delete the pair's rows, answer 'unfollowed'
                   /\ follows' = FollowsDelete(follows, follower_id, following_id)
                   /\ res' = "unfollowed"
                   /\ UNCHANGED <<users, notifications, awaiting>>
              ELSE /\ Len(notifications) < MaxNotifs
                   /\ follows' = follows (+)
                        SetToBag({FollowRow(follower_id, following_id, status)})
                   /\ notifications' = Append(notifications,
                        Notification(following_id, follower_id,
                                     FollowNotificationType(status)))
                   /\ res' = status
                   /\ awaiting' = IF status = "pending"
                                  THEN awaiting \cup {<<follower_id, following_id>>}
                                  ELSE awaiting
                   /\ UNCHANGED users
  /\ UNCHANGED chatVars
  /\ UNCHANGED contentVars

\* Mutant: the notification is written after the if/else, for either action.
RespondToRequestNotifiesAlways(follower_id, following_id, action) ==
  /\ follows' = IF action = "accept"
                THEN FollowsAccept(follows, follower_id, following_id)
                ELSE FollowsDelete(follows, follower_id, following_id)
  /\ awaiting' = IF action = "accept"
                 THEN awaiting \ {<<follower_id, following_id>>}
                 ELSE awaiting
  /\ IF NotificationsInsertFails(follower_id, following_id)
     THEN /\ res' = "error500"
          /\ UNCHANGED <<users, notifications>>
     ELSE /\ Len(notifications) < MaxNotifs
          /\ notifications' = Append(notifications,
                Notification(follower_id, following_id, "follow"))
          /\ res' = "success"
          /\ UNCHANGED users
  /\ UNCHANGED chatVars
  /\ UNCHANGED contentVars

\* app.post("/api/follows/respond")
RespondToRequest(follower_id, following_id, action) ==
  /\ IF action = "accept"
     THEN /\ follows' = FollowsAccept(follows, follower_id, following_id)
          /\ awaiting' = awaiting \ {<<follower_id, following_id>>}
          /\ IF NotificationsInsertFails(follower_id, following_id)
             THEN \* the insert throws after the UPDATE ran
                  /\ res' = "error500"
                  /\ UNCHANGED <<users, notifications>>
             ELSE /\ Len(notifications) < MaxNotifs
                  /\ notifications' = Append(notifications,
                        Notification(follower_id, following_id, "follow"))
                  /\ res' = "success"
                  /\ UNCHANGED users
     ELSE /\ follows' = FollowsDelete(follows, follower_id, following_id)
          /\ res' = "success"
          /\ UNCHANGED <<users, notifications, awaiting>>
  /\ UNCHANGED chatVars
  /\ UNCHANGED contentVars

\* Mutant: an account that becomes public accepts the requests it holds.
UpdateProfileAcceptsPending(id, is_private) ==
  /\ users' = [u \in DOMAIN users |->
                 IF u = id THEN [users[u] EXCEPT !.is_private = is_private]
                 ELSE users[u]]
  /\ follows' =
       IF is_private THEN follows
       ELSE LET hit == {r \in BagToSet(follows) :
                          r.following_id = id /\ r.status = "pending"}
            IN  [r \in BagToSet(follows) \ hit |-> follows[r]] (+)
                SetToBag({[r EXCEPT !.status = "accepted"] : r \in hit})
  /\ res' = "success"
  /\ UNCHANGED <<notifications, awaiting>>
  /\ UNCHANGED chatVars
  /\ UNCHANGED contentVars

\* app.put("/api/users/:id"): is_private ? 1 : 0
UpdateProfile(id, is_private) ==
  /\ users' = [u \in DOMAIN users |->
                 IF u = id THEN [users[u] EXCEPT !.is_private = is_private]
                 ELSE users[u]]
  /\ res' = "success"
  /\ UNCHANGED <<follows, notifications, awaiting>>
  /\ UNCHANGED chatVars
  /\ UNCHANGED contentVars

(* ------------------------------------------- posts, likes and comments *)

\* The content a comment may carry; the handler stores it as given.
CommentTexts == {"hi"}

LikeRow(post_id, user_id) == [post_id |-> post_id, user_id |-> user_id]

\* SELECT user_id FROM posts WHERE id = ?: whether a row answers
PostExists(post_id) == post_id \in 1..Len(posts) /\ posts[post_id] # null

\* Mutant: the likes table has no UNIQUE(post_id, user_id).
LikesInsertFailsNoUnique(t, post_id, user_id) ==
  \/ ~PostExists(post_id)
  \/ user_id \notin DOMAIN users

\* Mutant: the likes table has no FOREIGN KEY(post_id) REFERENCES posts(id).
LikesInsertFailsNoPostKey(t, post_id, user_id) ==
  \/ [post_id |-> post_id, user_id |-> user_id] \in BagToSet(t)
  \/ user_id \notin DOMAIN users

\* INSERT INTO likes fails on UNIQUE(post_id, user_id) and on either
\* FOREIGN KEY (posts(id), users(id)).
LikesInsertFails(t, post_id, user_id) ==
  \/ LikeRow(post_id, user_id) \in BagToSet(t)
  \/ ~PostExists(post_id)
  \/ user_id \notin DOMAIN users

\* DELETE FROM likes WHERE post_id = ? AND user_id = ?
LikesDelete(t, post_id, user_id) ==
  [r \in BagToSet(t) \ {LikeRow(post_id, user_id)} |-> t[r]]

\* INSERT INTO comments fails on either FOREIGN KEY (posts(id), users(id)).
CommentsInsertFails(post_id, user_id) ==
  ~PostExists(post_id) \/ user_id \notin DOMAIN users

\* Mutant: a notification equal to an unread one already stored is not written.
NotificationsInsertDeduplicates(t, n) ==
  IF \E i \in 1..Len(t) : t[i] = n THEN t ELSE Append(t, n)

\* INSERT INTO notifications ... .run(...): one more row, whatever the table holds
NotificationsInsert(t, n) == Append(t, n)

\* if (post && post.user_id !== user_id)
NotifiesOwner(owner, user_id) == owner # user_id

\* Mutant: the UPDATE has no WHERE user_id = ? and flips is_read.
NotificationsMarkReadFlipsAll(t, userId) ==
  [i \in 1..Len(t) |-> [t[i] EXCEPT !.is_read = ~t[i].is_read]]

\* UPDATE notifications SET is_read = 1 WHERE user_id = ?
NotificationsMarkRead(t, userId) ==
  [i \in 1..Len(t) |->
     IF t[i].user_id = userId THEN [t[i] EXCEPT !.is_read = TRUE] ELSE t[i]]

\* app.post("/api/posts")
CreatePost(user_id) ==
  /\ IF user_id \notin DOMAIN users
     THEN \* the insert throws on the FOREIGN KEY
          /\ res' = "error500"
          /\ UNCHANGED posts
     ELSE /\ Len(posts) < MaxPosts
          /\ posts' = Append(posts, user_id)
          /\ res' = "post"
  /\ UNCHANGED <<users, follows, notifications, awaiting, likes, comments>>
  /\ UNCHANGED chatVars

\* DELETE FROM posts WHERE id = ? fails while a row of likes or comments
\* names the post (FOREIGN KEY(post_id) REFERENCES posts(id), no ON DELETE).
PostsDeleteFails(post_id) ==
  /\ PostExists(post_id)
  /\ \/ \E r \in BagToSet(likes) : r.post_id = post_id
     \/ \E i \in 1..Len(comments) : comments[i].post_id = post_id

\* Mutant: the handler also runs DELETE FROM notifications WHERE post_id = ?.
DeletePostWithNotifications(post_id) ==
  /\ IF PostsDeleteFails(post_id)
     THEN /\ res' = "error500"
          /\ UNCHANGED <<posts, likes, comments, notifications>>
     ELSE /\ posts' = [i \in 1..Len(posts) |->
                         IF i = post_id THEN null ELSE posts[i]]
          /\ likes' = [r \in {x \in BagToSet(likes) : x.post_id # post_id}
                         |-> likes[r]]
          /\ comments' = SelectSeq(comments, LAMBDA c : c.post_id # post_id)
          /\ notifications' = SelectSeq(notifications, LAMBDA n : n.post_id # post_id)
          /\ res' = "success"
  /\ UNCHANGED <<users, follows, awaiting>>
  /\ UNCHANGED chatVars

\* app.delete("/api/posts/:id")
DeletePost(post_id) ==
  /\ IF PostsDeleteFails(post_id)
     THEN \* the first DELETE throws: nothing is deleted
          /\ res' = "error500"
          /\ UNCHANGED <<posts, likes, comments>>
     ELSE /\ posts' = [i \in 1..Len(posts) |->
                         IF i = post_id THEN null ELSE posts[i]]
          /\ likes' = [r \in {x \in BagToSet(likes) : x.post_id # post_id}
                         |-> likes[r]]
          /\ comments' = SelectSeq(comments, LAMBDA c : c.post_id # post_id)
          /\ res' = "success"
  /\ UNCHANGED <<users, follows, notifications, awaiting>>
  /\ UNCHANGED chatVars

\* app.post("/api/posts/:id/like")
Like(post_id, user_id) ==
  /\ IF LikesInsertFails(likes, post_id, user_id)
     THEN \* catch (e): delete the pair's row, answer liked: false
          /\ likes' = LikesDelete(likes, post_id, user_id)
          /\ res' = "liked_false"
          /\ UNCHANGED notifications
     ELSE /\ likes' = likes (+) SetToBag({LikeRow(post_id, user_id)})
          /\ IF PostExists(post_id) /\ NotifiesOwner(posts[post_id], user_id)
             THEN /\ Len(notifications) < MaxNotifs
                  /\ notifications' = NotificationsInsert(notifications,
                        NotificationOn(posts[post_id], user_id, "like", post_id))
             ELSE UNCHANGED notifications
          /\ res' = "liked_true"
  /\ UNCHANGED <<users, follows, awaiting, posts, comments>>
  /\ UNCHANGED chatVars

\* app.post("/api/posts/:id/comments")
Comment(post_id, user_id, content) ==
  /\ IF CommentsInsertFails(post_id, user_id)
     THEN \* the insert throws on a FOREIGN KEY
          /\ res' = "error500"
          /\ UNCHANGED <<comments, notifications>>
     ELSE /\ Len(comments) < MaxComments
          /\ comments' = Append(comments,
                [post_id |-> post_id, user_id |-> user_id, content |-> content])
          /\ IF PostExists(post_id) /\ NotifiesOwner(posts[post_id], user_id)
             THEN /\ Len(notifications) < MaxNotifs
                  /\ notifications' = NotificationsInsert(notifications,
                        NotificationOn(posts[post_id], user_id, "comment", post_id))
             ELSE UNCHANGED notifications
          /\ res' = "comment"
  /\ UNCHANGED <<users, follows, awaiting, posts, likes>>
  /\ UNCHANGED chatVars

\* app.post("/api/notifications/read")
MarkAllRead(userId) ==
  /\ notifications' = NotificationsMarkRead(notifications, userId)
  /\ res' = "success"
  /\ UNCHANGED <<users, follows, awaiting>>
  /\ UNCHANGED contentVars
  /\ UNCHANGED chatVars

(* ------------------------------------------------ profile and feed reads *)

\* Rows of the follows table that satisfy a WHERE clause, counted.
CountRows(t, rows) == SumCopies(t, rows)

\* SELECT COUNT(*) FROM follows WHERE following_id = ? AND status = 'accepted'
FollowersCount(id) ==
  CountRows(follows, {r \in BagToSet(follows) :
                        r.following_id = id /\ r.status = "accepted"})

\* SELECT COUNT(*) FROM follows WHERE follower_id = ? AND status = 'accepted'
FollowingCount(id) ==
  CountRows(follows, {r \in BagToSet(follows) :
                        r.follower_id = id /\ r.status = "accepted"})

\* Mutant: the subquery of the feed has no AND status = 'accepted'.
FeedSourcesAnyStatus(userId) ==
  {r.following_id : r \in {x \in BagToSet(follows) : x.follower_id = userId}}

\* SELECT following_id FROM follows WHERE follower_id = ? AND status = 'accepted'
FeedSources(userId) ==
  {r.following_id : r \in {x \in BagToSet(follows) :
                              x.follower_id = userId /\ x.status = "accepted"}}

\* app.get("/api/feed/:userId"): the ids of the posts answered.
\* FROM posts p JOIN users u ON p.user_id = u.id
\* WHERE p.user_id = ? OR p.user_id IN (FeedSources)
Feed(userId) ==
  {p \in 1..Len(posts) :
     /\ posts[p] # null
     /\ posts[p] \in DOMAIN users
     /\ posts[p] = userId \/ posts[p] \in FeedSources(userId)}

(* ------------------------------------------------------ onlineUsers Map *)

\* What Map.get answers for a key the Map does not hold.
undefined == 0

Entry(userId, socketId) == [userId |-> userId, socketId |-> socketId]

MapHas(m, userId) == \E i \in 1..Len(m) : m[i].userId = userId

\* onlineUsers.get(userId)
MapGet(m, userId) ==
  IF MapHas(m, userId)
  THEN m[CHOOSE i \in 1..Len(m) : m[i].userId = userId].socketId
  ELSE undefined

\* Mutant: an entry is added without replacing the one the key holds.
MapSetAppends(m, userId, socketId) ==
  Append(m, [userId |-> userId, socketId |-> socketId])

\* onlineUsers.set(userId, socketId): a held key keeps its place, a new key goes last
MapSet(m, userId, socketId) ==
  IF MapHas(m, userId)
  THEN [i \in 1..Len(m) |->
          IF m[i].userId = userId THEN Entry(userId, socketId) ELSE m[i]]
  ELSE Append(m, Entry(userId, socketId))

\* Mutant: the entry is not removed.
MapDeleteKeeps(m, userId) == m

\* onlineUsers.delete(userId)
MapDelete(m, userId) ==
  SelectSeq(m, LAMBDA e : e.userId # userId)

\* for (const [userId, socketId] of onlineUsers.entries()) if (socketId === socket.id) ... break
\* the position of the first entry held by socketId, 0 when there is none
FirstEntryOf(m, socketId) ==
  IF \E i \in 1..Len(m) : m[i].socketId = socketId
  THEN CHOOSE i \in 1..Len(m) :
         /\ m[i].socketId = socketId
         /\ \A j \in 1..(i - 1) : m[j].socketId # socketId
  ELSE 0

(* ------------------------------------------------------ socket handlers *)

\* io.emit(event, data): to every connection
IoEmit(event, data) ==
  [event |-> event, to |-> "all", id |-> undefined, data |-> data]

\* io.to(socketId).emit(event, data): to the room named by a socket id
IoToEmit(socketId, event, data) ==
  [event |-> event, to |-> "room", id |-> socketId, data |-> data]

\* Mutant: the confirmation is sent with io.emit.
SocketEmitToAll(socketId, event, data) ==
  [event |-> event, to |-> "all", id |-> 0, data |-> data]

\* socket.emit(event, data): to the connection whose handler runs
SocketEmit(socketId, event, data) ==
  [event |-> event, to |-> "socket", id |-> socketId, data |-> data]

\* INSERT INTO messages fails on either FOREIGN KEY ... REFERENCES users(id).
MessagesInsertFails(sender_id, receiver_id) ==
  sender_id \notin DOMAIN users \/ receiver_id \notin DOMAIN users

\* io.on("connection")
Connect ==
  /\ sockets < MaxSockets
  /\ sockets' = sockets + 1
  /\ connected' = connected \cup {sockets + 1}
  /\ emits' = <<>>
  /\ UNCHANGED <<onlineUsers, messages, superseded, created_at, now>>
  /\ UNCHANGED graphVars
  /\ UNCHANGED contentVars

\* socket.on("join")
Join(socket, userId) ==
  /\ socket \in connected
  /\ onlineUsers' = MapSet(onlineUsers, userId, socket)
  /\ emits' = <<IoEmit("user_status", [userId |-> userId, status |-> "online"])>>
  /\ superseded' =
       (superseded \ {<<userId, socket>>}) \cup
       (IF MapHas(onlineUsers, userId) /\ MapGet(onlineUsers, userId) # socket
           /\ MapGet(onlineUsers, userId) \in connected
        THEN {<<userId, MapGet(onlineUsers, userId)>>} ELSE {})
  /\ UNCHANGED <<sockets, connected, messages, created_at, now>>
  /\ UNCHANGED graphVars
  /\ UNCHANGED contentVars

\* Mutant: the new row is stored before the rows the table holds.
SendMessageInsertsFirst(socket, sender_id, receiver_id, content) ==
  /\ socket \in connected
  /\ IF MessagesInsertFails(sender_id, receiver_id)
     THEN /\ emits' = <<>>
          /\ UNCHANGED <<messages, created_at>>
     ELSE LET message == [id |-> Len(messages) + 1, sender_id |-> sender_id,
                          receiver_id |-> receiver_id, content |-> content]
              receiverSocketId == MapGet(onlineUsers, receiver_id)
          IN  /\ messages' = <<message>> \o messages
              /\ created_at' = <<now>> \o created_at
              /\ emits' =
                   (IF receiverSocketId # undefined
                    THEN <<IoToEmit(receiverSocketId, "new_message", message)>>
                    ELSE <<>>)
                   \o <<SocketEmit(socket, "message_sent", message)>>
  /\ UNCHANGED <<sockets, connected, onlineUsers, superseded, now>>
  /\ UNCHANGED graphVars
  /\ UNCHANGED contentVars

\* Mutant: the confirmation is emitted inside the if (receiverSocketId) block.
SendMessageEchoInsideIf(socket, sender_id, receiver_id, content) ==
  /\ socket \in connected
  /\ IF sender_id \notin DOMAIN users \/ receiver_id \notin DOMAIN users
     THEN /\ emits' = <<>>
          /\ UNCHANGED <<messages, created_at>>
     ELSE LET message == [id |-> Len(messages) + 1, sender_id |-> sender_id,
                          receiver_id |-> receiver_id, content |-> content]
              held == {i \in 1..Len(onlineUsers) : onlineUsers[i].userId = receiver_id}
          IN  /\ messages' = Append(messages, message)
              /\ created_at' = Append(created_at, now)
              /\ emits' =
                   IF held # {}
                   THEN <<[event |-> "new_message", to |-> "room",
                           id |-> onlineUsers[CHOOSE i \in held : TRUE].socketId,
                           data |-> message],
                          [event |-> "message_sent", to |-> "socket",
                           id |-> socket, data |-> message]>>
                   ELSE <<>>
  /\ UNCHANGED <<sockets, connected, onlineUsers, superseded, now>>
  /\ UNCHANGED graphVars
  /\ UNCHANGED contentVars

\* socket.on("send_message")
SendMessage(socket, sender_id, receiver_id, content) ==
  /\ socket \in connected
  /\ IF MessagesInsertFails(sender_id, receiver_id)
     THEN \* the insert throws: nothing is stored, nothing is emitted
          /\ emits' = <<>>
          /\ UNCHANGED <<messages, created_at>>
     ELSE LET message == [id |-> Len(messages) + 1, sender_id |-> sender_id,
                          receiver_id |-> receiver_id, content |-> content]
              receiverSocketId == MapGet(onlineUsers, receiver_id)
          IN  /\ messages' = Append(messages, message)
              /\ created_at' = Append(created_at, now)
              /\ emits' =
                   (IF receiverSocketId # undefined
                    THEN <<IoToEmit(receiverSocketId, "new_message", message)>>
                    ELSE <<>>)
                   \o <<SocketEmit(socket, "message_sent", message)>>
  /\ UNCHANGED <<sockets, connected, onlineUsers, superseded, now>>
  /\ UNCHANGED graphVars
  /\ UNCHANGED contentVars

\* socket.on("disconnect")
Disconnect(socket) ==
  /\ socket \in connected
  /\ connected' = connected \ {socket}
  /\ LET i == FirstEntryOf(onlineUsers, socket)
     IN  IF i # 0
         THEN /\ onlineUsers' = MapDelete(onlineUsers, onlineUsers[i].userId)
              /\ emits' = <<IoEmit("user_status",
                     [userId |-> onlineUsers[i].userId, status |-> "offline"])>>
         ELSE /\ emits' = <<>>
              /\ UNCHANGED onlineUsers
  /\ superseded' = {p \in superseded : p[2] # socket}
  /\ UNCHANGED <<sockets, messages, created_at, now>>
  /\ UNCHANGED graphVars
  /\ UNCHANGED contentVars

\* A second passes on the clock that DEFAULT CURRENT_TIMESTAMP reads.  Only
\* whether time passed between two inserts matters, so the clock advances at
\* most once per stored row.
Tick ==
  /\ now < Len(messages)
  /\ now' = now + 1
  /\ UNCHANGED <<sockets, connected, onlineUsers, messages, emits, superseded,
                 created_at>>
  /\ UNCHANGED graphVars
  /\ UNCHANGED contentVars

(* ------------------------------------------------------- specifications *)

NextGraph ==
  \/ \E a \in Ids, b \in Ids : RequestFollow(a, b)
  \/ \E a \in Ids, b \in Ids, action \in {"accept", "reject"} :
        RespondToRequest(a, b, action)
  \/ \E id \in Ids, p \in BOOLEAN : UpdateProfile(id, p)

NextChat ==
  \/ Connect
  \/ \E s \in 1..MaxSockets, u \in Accounts : Join(s, u)
  \/ \E s \in 1..MaxSockets, a \in Ids, b \in Ids, c \in Contents :
        /\ MessagesInsertFails(a, b) \/ Len(messages) < MaxMessages
        /\ SendMessage(s, a, b, c)
  \/ \E s \in 1..MaxSockets : Disconnect(s)

NextOrder ==
  \/ Connect
  \/ \E s \in 1..MaxSockets, u \in Accounts : Join(s, u)
  \/ \E s \in 1..MaxSockets, a \in Accounts, b \in Accounts :
        /\ a # b
        /\ Len(messages) < MaxSends
        /\ SendMessage(s, a, b, "hi")
  \/ \E s \in 1..MaxSockets : Disconnect(s)
  \/ Tick

NextContent ==
  \/ \E u \in Accounts : CreatePost(u)
  \/ \E p \in 1..MaxPosts : DeletePost(p)
  \/ \E p \in 1..MaxPosts, u \in Accounts : Like(p, u)
  \/ \E p \in 1..MaxPosts, u \in Accounts, c \in CommentTexts : Comment(p, u, c)
  \/ \E u \in Ids : MarkAllRead(u)

NextFeed ==
  \/ \E a \in Accounts, b \in Accounts : a # b /\ RequestFollow(a, b)
  \/ \E a \in Accounts, b \in Accounts, action \in {"accept", "reject"} :
        a # b /\ RespondToRequest(a, b, action)
  \/ \E id \in Accounts, p \in BOOLEAN : UpdateProfile(id, p)
  \/ \E u \in Accounts : CreatePost(u)
  \/ \E p \in 1..MaxPosts : DeletePost(p)

NextNotFound ==
  \/ \E u \in Ids : CreatePost(u)
  \/ \E p \in 1..MaxPosts : DeletePost(p)
  \/ \E p \in 1..MaxPosts, u \in Ids : Like(p, u)
  \/ \E p \in 1..MaxPosts, u \in Ids, c \in CommentTexts : Comment(p, u, c)
  \/ \E a \in Ids, b \in Ids \ Accounts : RequestFollow(a, b)

Next == NextGraph \/ NextChat \/ NextContent \/ NextOrder \/ NextFeed

\* The REST endpoints of the social graph.
SpecGraph == Init /\ [][NextGraph]_vars

\* The socket.io handlers.
SpecChat == Init /\ [][NextChat]_vars

\* The endpoints of posts, likes, comments and the notification list.
SpecContent == Init /\ [][NextContent]_vars

\* The socket.io handlers with the clock, for the order of messages.
SpecOrder == Init /\ [][NextOrder]_vars

\* The social graph and the posts, for what profiles and feeds show.
SpecFeed == Init /\ [][NextFeed]_vars

\* Posts, likes and comments, and follow requests that name no account.
SpecNotFound == Init /\ [][NextNotFound]_vars

\* The whole server.
Spec == Init /\ [][Next]_vars

(* ------------------------------------------------- claims: social graph *)

\* C1: for registered accounts a # b with no (a, b) row, POST /api/follow leaves
\* exactly one (a, b) row, added to the rows there were, whose status is
\* 'pending' when b is private and 'accepted' when b is public, and answers
\* that status.
C1_FollowCreatesEdge ==
  [][\A a \in Accounts, b \in Accounts :
       (a # b /\ EdgeCount(follows, a, b) = 0 /\ RequestFollow(a, b)) =>
         LET st == IF users[b].is_private THEN "pending" ELSE "accepted"
         IN  /\ follows' = follows (+) SetToBag({FollowRow(a, b, st)})
             /\ EdgeCount(follows', a, b) = 1
             /\ res' = st]_vars

\* A follow of a private account was answered 'pending' and its row is there.
C1_Witness ==
  \E a \in Accounts, b \in Accounts :
    /\ a # b
    /\ users[b].is_private
    /\ res = "pending"
    /\ EdgeRows(follows, a, b) = {FollowRow(a, b, "pending")}
    /\ notifications[Len(notifications)].actor_id = a

\* C2: POST /api/follow is a toggle.  With an (a, b) row of either status the
\* call removes it, touches no other row, and answers 'unfollowed'; with no
\* row and a public b it answers 'accepted', a follows b afterwards, and
\* removing the pair again gives back the rows there were before: so a second
\* call right after the first restores the edge set.
C2_FollowToggles ==
  [][\A a \in Ids, b \in Ids :
       RequestFollow(a, b) =>
         /\ EdgeCount(follows, a, b) > 0 =>
              /\ res' = "unfollowed"
              /\ EdgeCount(follows', a, b) = 0
              /\ ~IsFollowing(a, b)'
              /\ \A r \in BagToSet(follows) \cup BagToSet(follows') :
                   (r.follower_id # a \/ r.following_id # b) =>
                     CopiesIn(r, follows') = CopiesIn(r, follows)
         /\ (EdgeCount(follows, a, b) = 0 /\ a \in Accounts /\ b \in Accounts
             /\ ~users[b].is_private) =>
              /\ res' = "accepted"
              /\ IsFollowing(a, b)'
              /\ \A r \in BagToSet(follows) \cup BagToSet(follows') :
                   CopiesIn(r, follows') =
                     CopiesIn(r, follows) +
                     (IF r = FollowRow(a, b, "accepted") THEN 1 ELSE 0)]_vars

\* A pending request was cancelled by a second call: the row is gone, the
\* 'follow_request' notification of the first call is there.
C2_Witness ==
  /\ res = "unfollowed"
  /\ follows = EmptyBag
  /\ Len(notifications) = 1
  /\ notifications[1] = Notification(2, 1, "follow_request")

\* C3 as claimed: once POST /api/follow answered 'pending' for (a, b), a does
\* not follow b in any state reached without a call of
\* POST /api/follows/respond (a, b, accept).
C3_PendingUntilAccept ==
  \A p \in awaiting : ~IsFollowing(p[1], p[2])

\* C3 as amended: while the (a, b) row is pending, the only step after which a
\* follows b is POST /api/follows/respond (a, b, accept), and after that step
\* a does follow b.
C3_PendingRowUntilAccept ==
  [][\A a \in Accounts, b \in Accounts :
       IsPending(a, b) =>
         IF RespondToRequest(a, b, "accept")
         THEN IsFollowing(a, b)'
         ELSE ~IsFollowing(a, b)']_vars

\* A pending request to a private account was accepted.
C3_Witness ==
  \E a \in Accounts, b \in Accounts :
    /\ a # b
    /\ users[b].is_private
    /\ IsFollowing(a, b)
    /\ res = "success"
    /\ Len(notifications) = 2
    /\ notifications[1] = Notification(b, a, "follow_request")
    /\ notifications[2] = Notification(a, b, "follow")

\* C4: POST /api/follow with follower_id = following_id changes neither the
\* follows table nor the notifications table, and no row of the follows table
\* has follower_id = following_id.
C4_NoSelfFollow ==
  /\ [](\A r \in BagToSet(follows) : r.follower_id # r.following_id)
  /\ [][\A a \in Ids :
          RequestFollow(a, a) =>
            follows' = follows /\ notifications' = notifications]_vars

\* C5: the follows table holds at most one row per ordered pair, and its
\* status is 'pending' or 'accepted'.
C5_OneEdgePerPair ==
  /\ \A a \in Ids, b \in Ids : EdgeCount(follows, a, b) <= 1
  /\ \A r \in BagToSet(follows) : r.status \in {"pending", "accepted"}

\* Both statuses are in the table and a repeated follow was just answered
\* 'unfollowed'.
C5_Witness ==
  /\ res = "unfollowed"
  /\ \E r \in BagToSet(follows) : r.status = "pending"
  /\ \E r \in BagToSet(follows) : r.status = "accepted"

(* ---------------------------------------- claims: presence and messaging *)

\* Number of events of es named event that are addressed to connection id.
EmitsTo(es, event, id) ==
  Cardinality({i \in 1..Len(es) : es[i].event = event /\ es[i].id = id})

\* Number of events of es named event, whatever their address.
EmitsOf(es, event) ==
  Cardinality({i \in 1..Len(es) : es[i].event = event})

\* The data of the events of es named event.
DataOf(es, event) ==
  {es[i].data : i \in {j \in 1..Len(es) : es[j].event = event}}

\* Connection s joined as account a: it holds a's entry, or held it until
\* another connection joined as a.
JoinedAs(s, a) ==
  MapGet(onlineUsers, a) = s \/ <<a, s>> \in superseded

C7_NoDeliveryWhenOffline ==
  [][/\ \A s \in 1..MaxSockets, a \in Accounts, b \in Accounts, c \in Contents :
          (SendMessage(s, a, b, c) /\ ~MapHas(onlineUsers, b)) =>
            /\ EmitsOf(emits', "new_message") = 0
            /\ messages' = Append(messages,
                  [id |-> Len(messages) + 1, sender_id |-> a,
                   receiver_id |-> b, content |-> c])
            /\ Len(emits') = 1
            /\ EmitsTo(emits', "message_sent", s) = 1
            /\ emits'[1].to = "socket"
            /\ emits'[1].data = messages'[Len(messages')]
     /\ \A i \in 1..Len(emits') :
          emits'[i].event = "new_message" =>
            /\ Len(messages') = Len(messages) + 1
            /\ emits'[i].data = messages'[Len(messages')]
            /\ emits'[i].id = MapGet(onlineUsers, emits'[i].data.receiver_id)]_vars

\* A message was stored for a receiver that had no entry and only the
\* confirmation was emitted.
C7_Witness ==
  /\ Len(messages) = 1
  /\ ~MapHas(onlineUsers, messages[1].receiver_id)
  /\ Len(emits) = 1
  /\ emits[1].event = "message_sent"
  /\ emits[1].data = messages[1]

\* The receiver of a stored message joined after the message was sent.
C7_WitnessLateJoin ==
  /\ Len(messages) = 1
  /\ MapHas(onlineUsers, messages[1].receiver_id)
  /\ Len(emits) = 1
  /\ emits[1].event = "user_status"
  /\ emits[1].data.userId = messages[1].receiver_id

\* C8: no stored message and no emitted message has empty content.
C8_EmptyContentRejected ==
  /\ \A i \in 1..Len(messages) : messages[i].content # ""
  /\ \A i \in 1..Len(emits) :
       emits[i].event \in {"new_message", "message_sent"} =>
         emits[i].data.content # ""

\* C9: the Map holds at most one entry per account, and after a join the
\* entry of the account is the joining connection (last connect wins).
C9_OneHandleLastWins ==
  /\ [](\A i \in 1..Len(onlineUsers), j \in 1..Len(onlineUsers) :
          onlineUsers[i].userId = onlineUsers[j].userId => i = j)
  /\ [][\A s \in 1..MaxSockets, u \in Accounts :
          Join(s, u) =>
            /\ MapGet(onlineUsers', u) = s
            /\ \A i \in 1..Len(onlineUsers') :
                 onlineUsers'[i].userId = u => onlineUsers'[i].socketId = s]_vars

\* An account joined on one connection and then on another, both open: the
\* Map holds the second.
C9_Witness ==
  \E p \in superseded :
    /\ p[2] \in connected
    /\ MapHas(onlineUsers, p[1])
    /\ MapGet(onlineUsers, p[1]) # p[2]
    /\ MapGet(onlineUsers, p[1]) \in connected
    /\ emits = <<IoEmit("user_status", [userId |-> p[1], status |-> "online"])>>

\* C10: a disconnect leaves alone the entry of every account whose entry is
\* not the closing connection and emits no 'offline' for it; it removes the
\* entry of every account whose entry is the closing connection and emits
\* exactly one 'offline' for that account; a connection that holds no entry
\* changes nothing and emits nothing.
C10_UnregisterByHandle ==
  [][\A s \in 1..MaxSockets :
       Disconnect(s) =>
         /\ \A u \in Accounts :
              MapGet(onlineUsers, u) # s =>
                /\ MapGet(onlineUsers', u) = MapGet(onlineUsers, u)
                /\ [userId |-> u, status |-> "offline"] \notin DataOf(emits', "user_status")
         /\ \A u \in Accounts :
              MapGet(onlineUsers, u) = s =>
                /\ ~MapHas(onlineUsers', u)
                /\ Cardinality({i \in 1..Len(emits') :
                      emits'[i].data = [userId |-> u, status |-> "offline"]}) = 1
         /\ (\A u \in Accounts : MapGet(onlineUsers, u) # s) =>
              onlineUsers' = onlineUsers /\ emits' = <<>>]_vars

\* C11: every entry of the Map names an open connection: once a connection
\* has disconnected no account is mapped to its socket id.
C11_NoEntryForClosedConnection ==
  \A i \in 1..Len(onlineUsers) : onlineUsers[i].socketId \in connected

\* Connection h receives event e: io.emit reaches every open connection,
\* io.to(id) and socket.emit reach the connection with that id.
Receives(h, e) ==
  e.to = "all" \/ e.id = h

\* C12: a connection whose registration for an account was overwritten by
\* another connection, and that stays open and overwritten, receives none of
\* the events a handler emits.
C12_OrphanReceivesNothing ==
  [][\A p \in superseded \cap superseded' :
       \A i \in 1..Len(emits') : ~Receives(p[2], emits'[i])]_vars

(* ---------------------------------- claims: notifications of the graph *)

\* C13: a POST /api/follow (a, b) answered 'accepted' appends exactly one
\* notification of type 'follow', and one answered 'pending' exactly one of
\* type 'follow_request', each with actor_id = a, user_id = b and unread.
C13_FollowNotifies ==
  [][\A a \in Ids, b \in Ids :
       (RequestFollow(a, b) /\ res' \in {"accepted", "pending"}) =>
         /\ Len(notifications') = Len(notifications) + 1
         /\ SubSeq(notifications', 1, Len(notifications)) = notifications
         /\ LET n == notifications'[Len(notifications')]
            IN  /\ n.user_id = b
                /\ n.actor_id = a
                /\ n.type = (IF res' = "accepted" THEN "follow" ELSE "follow_request")
                /\ n.is_read = FALSE]_vars

\* A follow of a public account was answered 'accepted' and notified.
C13_Witness ==
  \E a \in Accounts, b \in Accounts :
    /\ a # b
    /\ res = "accepted"
    /\ IsFollowing(a, b)
    /\ notifications # <<>>
    /\ notifications[Len(notifications)] = Notification(b, a, "follow")

\* C14: POST /api/follows/respond (a, b, accept) on a pending (a, b) row
\* appends exactly one notification of type 'follow' with actor_id = a (the
\* follower) and user_id = b (the followee).
C14_AcceptNotifiesFollowee ==
  [][\A a \in Accounts, b \in Accounts :
       (IsPending(a, b) /\ RespondToRequest(a, b, "accept")) =>
         notifications' = Append(notifications, Notification(b, a, "follow"))]_vars

\* C15: a POST /api/follow answered 'unfollowed' and a
\* POST /api/follows/respond with action reject leave the notifications table
\* as it was.
C15_UnfollowRejectSilent ==
  [][\A a \in Ids, b \in Ids :
       ((RequestFollow(a, b) /\ res' = "unfollowed")
        \/ RespondToRequest(a, b, "reject")) =>
         notifications' = notifications]_vars

\* A pending request to private account 2 was rejected: the row is gone and the
\* request's notification is the only one.
C15_Witness ==
  /\ res = "success"
  /\ users[2].is_private
  /\ follows = EmptyBag
  /\ notifications = <<Notification(2, 1, "follow_request")>>

\* C16: POST /api/follows/respond (a, b, accept), a # b registered accounts,
\* with no pending (a, b) row (none, or an accepted one) changes neither the follows table nor the
\* notifications table.
C16_AcceptWithoutPendingIsNoop ==
  [][\A a \in Accounts, b \in Accounts :
       (a # b /\ ~IsPending(a, b) /\ RespondToRequest(a, b, "accept")) =>
         follows' = follows /\ notifications' = notifications]_vars

\* C17 as claimed: for a # b, reject removes a pending (a, b) row and leaves an accepted
\* (a, b) row in place.
C17_RejectKeepsAccepted ==
  [][\A a \in Accounts, b \in Accounts :
       (a # b /\ RespondToRequest(a, b, "reject")) =>
         /\ IsPending(a, b) => EdgeCount(follows', a, b) = 0
         /\ IsFollowing(a, b) => IsFollowing(a, b)']_vars

\* C17 as amended: reject removes the (a, b) row whatever its status, and
\* touches no other row.
C17_RejectDeletesAnyStatus ==
  [][\A a \in Accounts, b \in Accounts :
       RespondToRequest(a, b, "reject") =>
         /\ EdgeCount(follows', a, b) = 0
         /\ \A r \in BagToSet(follows) \cup BagToSet(follows') :
              (r.follower_id # a \/ r.following_id # b) =>
                CopiesIn(r, follows') = CopiesIn(r, follows)]_vars

\* An accepted follow of public account 2 was removed by a reject.
C17_Witness ==
  /\ res = "success"
  /\ ~users[2].is_private
  /\ follows = EmptyBag
  /\ notifications = <<Notification(2, 1, "follow")>>


(* ------------------------------------------------------------------ C18 *)

\* C18: no notification has its recipient as its actor: an event whose actor
\* is the recipient writes nothing.  The follow handler compares nothing, so
\* an account following itself is notified of it (see C4).
C18_NoSelfNotification ==
  \A i \in 1..Len(notifications) :
    notifications[i].user_id # notifications[i].actor_id

(* ------------------------------------------------------------------ C19 *)

\* Two notifications tell of the same event when all but is_read agree.
SameEvent(m, n) ==
  /\ m.user_id = n.user_id
  /\ m.actor_id = n.actor_id
  /\ m.type = n.type
  /\ m.post_id = n.post_id

EventCount(t, n) == Cardinality({i \in 1..Len(t) : SameEvent(t[i], n)})

\* C19: notifications are not deduplicated: every like that succeeds and
\* every comment stored, by someone other than the post's owner, adds one
\* more notification of that event to those the owner already has of it.
C19_NoDeduplication ==
  [][\A p \in 1..MaxPosts, u \in Accounts :
       /\ (res' = "liked_true" /\ Like(p, u) /\ posts[p] # u) =>
            /\ Len(notifications') = Len(notifications) + 1
            /\ EventCount(notifications', NotificationOn(posts[p], u, "like", p))
                 = EventCount(notifications, NotificationOn(posts[p], u, "like", p)) + 1
       /\ (res' = "comment" /\ (\E c \in CommentTexts : Comment(p, u, c)) /\ posts[p] # u) =>
            /\ Len(notifications') = Len(notifications) + 1
            /\ EventCount(notifications', NotificationOn(posts[p], u, "comment", p))
                 = EventCount(notifications, NotificationOn(posts[p], u, "comment", p)) + 1
    ]_vars

\* Like, unlike, like again: the owner holds two notifications of one event.
C19_Witness ==
  /\ res = "liked_true"
  /\ \E p \in 1..Len(posts), u \in Accounts :
       /\ posts[p] # u
       /\ LikeRow(p, u) \in BagToSet(likes)
       /\ EventCount(notifications, NotificationOn(posts[p], u, "like", p)) >= 2

(* ------------------------------------------------------------------ C20 *)

\* The notifications of a recipient that are not read.
Unread(t, userId) ==
  {i \in 1..Len(t) : t[i].user_id = userId /\ ~t[i].is_read}

\* C20: MarkAllRead(R) makes every notification of R read and changes
\* nothing else, so R has no unread notification right after it; marking
\* again, or marking when R has nothing unread, changes nothing.
C20_MarkAllRead ==
  [][\A r \in Ids :
       (res' = "success" /\ MarkAllRead(r)) =>
         /\ Unread(notifications', r) = {}
         /\ Len(notifications') = Len(notifications)
         /\ \A i \in 1..Len(notifications) :
              /\ [notifications'[i] EXCEPT !.is_read = notifications[i].is_read]
                   = notifications[i]
              /\ notifications[i].user_id # r => notifications'[i] = notifications[i]
         /\ NotificationsMarkRead(notifications', r) = notifications'
         /\ Unread(notifications, r) = {} => notifications' = notifications
    ]_vars

\* A recipient with notifications has just marked them and none is unread.
C20_Witness ==
  /\ res = "success"
  /\ \E r \in Accounts :
       /\ \E i \in 1..Len(notifications) :
            notifications[i].user_id = r /\ notifications[i].is_read
       /\ Unread(notifications, r) = {}


(* ------------------------------------------------------------------ C21 *)

\* C21: a stored notification stays at its place with its recipient, actor,
\* kind and post; its read flag changes only in a MarkAllRead of its own
\* recipient, and only to read.  Unlike, comment, post deletion and
\* MarkAllRead of another account leave it as it was.
C21_NotificationsFrame ==
  [][\A i \in 1..Len(notifications) :
       /\ i <= Len(notifications')
       /\ \/ notifications'[i] = notifications[i]
          \/ /\ MarkAllRead(notifications[i].user_id)
             /\ notifications'[i] = [notifications[i] EXCEPT !.is_read = TRUE]
    ]_vars

\* A post was deleted and a notification that names it is still stored.
C21_Witness ==
  /\ res = "success"
  /\ \E p \in 1..Len(posts) :
       /\ posts[p] = null
       /\ \E i \in 1..Len(notifications) : notifications[i].post_id = p


(* ------------------------------------------------------------------ C22 *)

\* C22: every send_message between two registered accounts stores exactly
\* one row, after the rows there were; identifiers grow and created_at does
\* not decrease in rowid order; and the call pushes at most one
\* 'new_message', exactly one when the receiver holds an entry, to the
\* receiver's connection, carrying the row of that very call, so pushes
\* follow the order of the calls.
C22_MessagesInOrder ==
  /\ [](/\ Len(created_at) = Len(messages)
        /\ \A i \in 1..Len(messages), j \in 1..Len(messages) :
             i < j => /\ messages[i].id < messages[j].id
                      /\ created_at[i] <= created_at[j])
  /\ [][\A s \in 1..MaxSockets, a \in Accounts, b \in Accounts :
          (a # b /\ SendMessage(s, a, b, "hi")) =>
            /\ Len(messages') = Len(messages) + 1
            /\ SubSeq(messages', 1, Len(messages)) = messages
            /\ SubSeq(created_at', 1, Len(created_at)) = created_at
            /\ messages'[Len(messages')].sender_id = a
            /\ messages'[Len(messages')].receiver_id = b
            /\ EmitsOf(emits', "new_message") =
                 (IF MapHas(onlineUsers, b) THEN 1 ELSE 0)
            /\ \A i \in 1..Len(emits') :
                 emits'[i].event = "new_message" =>
                   /\ emits'[i].data = messages'[Len(messages')]
                   /\ emits'[i].to = "room"
                   /\ emits'[i].id = MapGet(onlineUsers, b)]_vars

\* Two messages of one sender to one receiver, a second apart, the second
\* one just pushed to the receiver.
C22_Witness ==
  /\ Len(messages) = 2
  /\ messages[1].sender_id = messages[2].sender_id
  /\ messages[1].receiver_id = messages[2].receiver_id
  /\ created_at[1] < created_at[2]
  /\ \E i \in 1..Len(emits) :
       emits[i].event = "new_message" /\ emits[i].data = messages[2]


(* ------------------------------------------------------------------ C23 *)

\* The authors of the posts a feed answers.
FeedAuthors(userId) == {posts[p] : p \in Feed(userId)}

\* C23: the follower and following counts of a profile count the accepted
\* edges, and the feed of a shows the posts of a and of the accounts a has an
\* accepted edge to, and no other: while (a, b) is pending, or absent, for
\* b # a, no post of b is in a's feed and the edge raises neither count.
C23_AcceptedEdgesOnly ==
  \A a \in Accounts :
    /\ FollowersCount(a) = Cardinality({x \in Accounts : IsFollowing(x, a)})
    /\ FollowingCount(a) = Cardinality({x \in Accounts : IsFollowing(a, x)})
    /\ Feed(a) = {p \in 1..Len(posts) :
                    posts[p] = a \/ (posts[p] # null /\ IsFollowing(a, posts[p]))}
    /\ \A b \in Accounts \ {a} :
         ~IsFollowing(a, b) => b \notin FeedAuthors(a)
    /\ \A b \in Accounts \ {a} :
         IsPending(a, b) => ~IsFollowing(a, b)

\* A pending edge (1, 2), a post of 2, and neither a feed entry nor a count.
C23_Witness ==
  /\ IsPending(1, 2)
  /\ \E p \in 1..Len(posts) : posts[p] = 2
  /\ Feed(1) = {}
  /\ Feed(2) # {}
  /\ FollowersCount(2) = 0
  /\ FollowingCount(1) = 0


(* ------------------------------------------------------------------ C24 *)

\* C24: a follow request toward an id that names no account, and a like or
\* a comment on an id that names no post, leave every table as it was: no
\* follow edge, no like, no comment and no notification is written.
C24_MissingTargetWritesNothing ==
  [][/\ \A a \in Ids, b \in Ids \ Accounts :
          RequestFollow(a, b) =>
            /\ follows' = follows
            /\ notifications' = notifications
            /\ res' = "error500"
     /\ \A p \in 1..MaxPosts, u \in Ids :
          (~PostExists(p) /\ Like(p, u)) =>
            /\ UNCHANGED <<follows, notifications, likes, comments, posts>>
            /\ res' = "liked_false"
     /\ \A p \in 1..MaxPosts, u \in Ids, c \in CommentTexts :
          (~PostExists(p) /\ Comment(p, u, c)) =>
            /\ UNCHANGED <<follows, notifications, likes, comments, posts>>
            /\ res' = "error500"
    ]_vars

\* A like was answered while the posts table held no row.
C24_Witness ==
  /\ res = "liked_false"
  /\ posts = <<>>
  /\ likes = EmptyBag
  /\ notifications = <<>>


(* ------------------------------------------------------------------ C25 *)

\* C25: the like endpoint toggles.  For a post that exists and a registered
\* user, the call answers liked: true exactly when the pair had no like, and
\* liked: false otherwise; the pair has a like afterwards exactly when the
\* answer is liked: true; the likes of other pairs stay; and no pair ever
\* has two likes.
C25_LikeToggles ==
  /\ [](\A r \in BagToSet(likes) : CopiesIn(r, likes) = 1)
  /\ [][\A p \in 1..MaxPosts, u \in Accounts :
          (PostExists(p) /\ Like(p, u)) =>
            /\ res' \in {"liked_true", "liked_false"}
            /\ res' = "liked_true" <=> ~BagIn(LikeRow(p, u), likes)
            /\ BagIn(LikeRow(p, u), likes') <=> res' = "liked_true"
            /\ \A r \in (BagToSet(likes) \cup BagToSet(likes')) \ {LikeRow(p, u)} :
                 CopiesIn(r, likes') = CopiesIn(r, likes)]_vars

\* A like was taken back: the answer is liked: false, the pair has no like,
\* and the notification of the like remains.
C25_Witness ==
  /\ res = "liked_false"
  /\ \E p \in 1..Len(posts), u \in Accounts :
       /\ posts[p] \in Accounts \ {u}
       /\ ~BagIn(LikeRow(p, u), likes)
       /\ \E i \in 1..Len(notifications) :
            SameEvent(notifications[i], NotificationOn(posts[p], u, "like", p))


(* ------------------------------------------------------------------ C26 *)

\* The connections the registry holds an entry of.
Registered(m) == {m[i].socketId : i \in 1..Len(m)}

\* C26: a join broadcasts one 'user_status' online event for the account, and
\* the open connections that receive it are exactly those the registry holds
\* after the join.
C26_OnlineToRegisteredOnly ==
  [][\A s \in 1..MaxSockets, u \in Accounts :
       Join(s, u) =>
         /\ Len(emits') = 1
         /\ emits'[1].event = "user_status"
         /\ emits'[1].data = [userId |-> u, status |-> "online"]
         /\ {h \in connected' : Receives(h, emits'[1])}
              = Registered(onlineUsers') \cap connected']_vars


(* ------------------------------------------------------------------ C27 *)

\* C27: POST /api/follow answers 'unfollowed' only when the pair had a row
\* before the call.
C27_UnfollowedOnlyIfEdge ==
  [][\A a \in Ids, b \in Ids :
       (RequestFollow(a, b) /\ res' = "unfollowed") =>
         EdgeCount(follows, a, b) > 0]_vars


(* ------------------------------------------------------------------ C28 *)

\* The positions in es of the 'user_status' events about account a.
StatusEvents(es, a) ==
  {i \in 1..Len(es) : es[i].event = "user_status" /\ es[i].data.userId = a}

\* The status the last of those events tells.
LastStatus(es, a) ==
  es[CHOOSE i \in StatusEvents(es, a) :
       \A j \in StatusEvents(es, a) : j <= i].data.status

\* C28: the registry starts empty with nothing broadcast; a handler that
\* broadcasts 'user_status' for an account leaves the account with an entry
\* exactly when the last status it broadcast for it is online; and a handler
\* that broadcasts none for an account leaves its entry as it was.  Hence an
\* account has an entry exactly when the last status broadcast for it was
\* online.
C28_RegistryAgreesWithBroadcasts ==
  /\ [](sockets = 0 => onlineUsers = <<>> /\ emits = <<>>)
  /\ [][\A a \in Accounts :
          IF StatusEvents(emits', a) # {}
          THEN /\ MapHas(onlineUsers', a) <=> LastStatus(emits', a) = "online"
               /\ \A i \in StatusEvents(emits', a) : emits'[i].to = "all"
          ELSE MapHas(onlineUsers', a) <=> MapHas(onlineUsers, a)]_vars

\* A connection joined as 1 and as 2 and closed: offline was broadcast for 1,
\* whose entry is gone, and not for 2, whose entry stays.
C28_Witness ==
  /\ StatusEvents(emits, 1) # {}
  /\ LastStatus(emits, 1) = "offline"
  /\ ~MapHas(onlineUsers, 1)
  /\ MapHas(onlineUsers, 2)
  /\ MapGet(onlineUsers, 2) \notin connected


(* ------------------------------------------------------------------ C29 *)

\* C29: a send_message stores or emits a message only when the registry
\* holds the emitting connection for the sender_id the message carries.
C29_SenderIsRegisteredAccount ==
  [][\A s \in 1..MaxSockets, a \in Ids, b \in Ids, c \in Contents :
       (SendMessage(s, a, b, c) /\ (messages' # messages \/ emits' # <<>>)) =>
         MapGet(onlineUsers, a) = s]_vars


(* ------------------------------------------------------------------ C30 *)

\* C30: a step that changes the follows table is no profile update,
\* whichever way the privacy flag goes; in such a step a pair that is
\* pending is accepted afterwards only if the step is
\* RespondToRequest(a, b, accept); and no step turns an accepted pair into a
\* pending one.
C30_PrivacyChangeKeepsEdges ==
  [][\/ follows' = follows
     \/ /\ \A id \in Ids, p \in BOOLEAN : ~UpdateProfile(id, p)
        /\ \A a \in Accounts, b \in Accounts :
             /\ (IsPending(a, b) /\ IsFollowing(a, b)') =>
                  RespondToRequest(a, b, "accept")
             /\ ~(IsFollowing(a, b) /\ IsPending(a, b)')
    ]_vars

\* After profile updates, a request to an account that is now public is
\* still pending and an edge to an account that is now private is still
\* accepted.
C30_Witness ==
  /\ res = "success"
  /\ IsPending(1, 2) /\ ~users[2].is_private
  /\ IsFollowing(2, 1) /\ users[1].is_private

====
